---- MODULE Spec2Model ----
(***************************************************************************)
(* Model of the lazy block-operator layer of cbc.block:                    *)
(*   block_mat.matvec / block_mat.transpmult   (src/block/block_mat.py)    *)
(*   block_compose construction, apply, adjoint (src/block/block_compose.py)*)
(*   block_add / block_sub apply and negation  (src/block/block_compose.py)*)
(*   matrix_op, diag_op, collapse   (src/block/algebraic/trilinos/Epetra.py)*)
(*   block_mat.copy                            (src/block/block_mat.py)    *)
(*   Precond.__init__          (src/block/algebraic/hazmath/precond.py)    *)
(*                                                                         *)
(* Vectors are heap objects (identity matters: an identity slot hands out  *)
(* the input block itself and "+=" updates an object in place).  Indices   *)
(* are 1-based here, 0-based in the source.                                *)
(***************************************************************************)
EXTENDS Integers, Sequences, FiniteSets, TLC

VARIABLES
    M,        \* block_mat.blocks: sequence of rows of slots
    x,        \* the block vector passed in: sequence of heap ids
    xin,      \* the values of the blocks of x when the call was made
    heap,     \* vector objects: sequence of [kind, val]
    y,        \* block_vec built by the call: heap id per block, 0 for None
    bi, bj,   \* loop counters i and j of the running call
    mode,     \* "idle", "matvec" or "transpmult"
    pc,       \* "idle", "loop", "returned", "notimpl", "raised"
    err,      \* which error was raised ("" when none)
    calls,    \* slots whose contribution was computed, in order
    nodes,    \* the block_compose objects built so far
    built,    \* built[k]: the arguments (A, B) nodes[k] was constructed from
    cchain,   \* self.chain of the node being applied
    cargs,    \* the arguments the node being applied was constructed from
    ck,       \* number of loop iterations of the running apply that are done
    cx,       \* the running value x of the apply
    cin,      \* the operand the apply was called with
    clog,     \* the multiplications done by the apply: [op, inp, out]
    cmode,    \* "idle", "mul" or "transp"
    cpc,      \* "idle", "loop", "returned", "notimpl", "raised"
    snodes,   \* the block_add / block_sub objects built so far
    sfrom,    \* sfrom[k]: 0 if snodes[k] was constructed, else the node negated
    sk,       \* the node whose __mul__ is running
    sheap,    \* objects of the running __mul__: sheap[1] is x, sheap[sy] is y
    sxin,     \* the operand x as it was passed in
    sy,       \* id of y in sheap, 0 before y = self.A*x
    sz,       \* the value of self.B*x
    sevals,   \* which of self.A*x, self.B*x were evaluated, in order
    spc,      \* "idle", "check", "gotA", "gotB", "acc", "returned", "notimpl", "raised"
    serr,     \* which error was raised ("" when none)
    eself,    \* the matrix_op / diag_op the methods are called on
    econ,     \* that operator as it was constructed
    ecall,    \* the last call: "idle", "matvec", "transpmult", "matmat", "add", "collapse"
    earg,     \* its argument
    escale,   \* its scale factors <<lscale, rscale>>
    eout,     \* what it returned
    epc,      \* "idle", "flipped", "back", "returned", "notimpl", "raised"
    ecalls,   \* number of calls made
    cpM,      \* the block_mat copy() is called on: rows of slot objects
    cpY,      \* the block_mat y that copy() builds
    cpi, cpj, \* loop counters i and j of copy()
    cppc,     \* "idle", "loop", "returned", "raised", "assigned"
    cperr,    \* which error copy() raised ("" when none)
    pargs,    \* the arguments prectype, parameters, precond of Precond.__init__
    pself,    \* the Precond object: A, parameters, precond, prectype
    pwarned,  \* whether the RuntimeWarning was issued
    ppc,      \* "idle", "branch", "setup", "check", "type", "returned", "raised"
    perr      \* the message of the RuntimeError raised ("" when none)

matvars == <<M, x, xin, heap, y, bi, bj, mode, pc, err, calls>>

compvars == <<nodes, built, cchain, cargs, ck, cx, cin, clog, cmode, cpc>>

addvars == <<snodes, sfrom, sk, sheap, sxin, sy, sz, sevals, spc, serr>>

epvars == <<eself, econ, ecall, earg, escale, eout, epc, ecalls>>

copyvars == <<cpM, cpY, cpi, cpj, cppc, cperr>>

precvars == <<pargs, pself, pwarned, ppc, perr>>

restvars == <<epvars, copyvars, precvars>>

extvars == <<addvars, restvars>>

vars == <<matvars, compvars, extvars>>

----------------------------------------------------------------------------
(* Bounds and input sets                                                   *)

\* at most this many slots of a block matrix are not None
MaxFilled == 3

\* at most this many block_compose objects are built
MaxNodes == 2

Shapes == {<<1, 2>>, <<2, 1>>, <<2, 2>>}

\* values of the blocks of an input block vector
XVals == {<<1, 2>>, <<3, 1>>}

----------------------------------------------------------------------------
(* Dense matrices and vectors standing for the external backend            *)

RECURSIVE SumTo(_, _)
SumTo(f, k) == IF k = 0 THEN 0 ELSE f[k] + SumTo(f, k - 1)

Dot(r, v) == SumTo([k \in 1..Len(v) |-> r[k] * v[k]], Len(v))

NumRows(mat) == Len(mat)
NumCols(mat) == Len(mat[1])

MatVecMul(mat, v) == [r \in 1..NumRows(mat) |-> Dot(mat[r], v)]

Transpose(mat) == [c \in 1..NumCols(mat) |-> [r \in 1..NumRows(mat) |-> mat[r][c]]]

VecAdd(u, v) == [k \in 1..Len(u) |-> u[k] + v[k]]

VecScale(c, v) == [k \in 1..Len(v) |-> c * v[k]]

\* the concrete operators that may sit in a slot or a chain
OpMat(name) ==
    CASE name = "A" -> <<<<1, 2>>, <<0, 1>>>>
      [] name = "B" -> <<<<1, 0>>, <<1, 1>>>>
      [] name = "R" -> <<<<1, 1>>>>
      [] name = "D" -> <<<<2, 0>>, <<0, 3>>>>
      [] OTHER      -> <<<<0>>>>

----------------------------------------------------------------------------
(* Slots of a block matrix                                                 *)

NoneSlot      == [k |-> "none",   v |-> 0, name |-> ""]
ScalarSlot(c) == [k |-> "scalar", v |-> c, name |-> ""]
\* a dolfin GenericMatrix (applied through create_vec + mult)
GmSlot(nm)    == [k |-> "gm",     v |-> 0, name |-> nm]
\* any other operator object (applied through "*")
OpSlot(nm)    == [k |-> "op",     v |-> 0, name |-> nm]

\* "NA": an operator whose multiply yields NotImplemented for this operand;
\* "LZ": an operator whose multiply yields a non-vector (a deferred product)
SlotVals ==
    {NoneSlot, ScalarSlot(0), ScalarSlot(1), ScalarSlot(2),
     GmSlot("A"), OpSlot("B"), OpSlot("R"), OpSlot("NA"), OpSlot("LZ")}

Filled(mat) ==
    Cardinality({p \in (1..Len(mat)) \X (1..Len(mat[1])) : mat[p[1]][p[2]].k # "none"})

Matrices ==
    UNION {{mat \in [1..s[1] -> [1..s[2] -> SlotVals]] : Filled(mat) <= MaxFilled}
           : s \in Shapes}

----------------------------------------------------------------------------
(* Results of one multiplication                                           *)

VecObj(v)   == [kind |-> "vec",   val |-> v]
\* an object that is neither a GenericVector nor a block_vec
OtherObj    == [kind |-> "other", val |-> <<>>]

\* z is the object x[j] itself
Ref(id)     == [tag |-> "ref",   id |-> id, obj |-> OtherObj]
\* z is a freshly created object
New(obj)    == [tag |-> "new",   id |-> 0,  obj |-> obj]
NotImpl     == [tag |-> "ni",    id |-> 0,  obj |-> OtherObj]
\* the operator itself raised (incompatible dimensions)
Raised      == [tag |-> "raise", id |-> 0,  obj |-> OtherObj]

\* the object a result denotes
ObjOf(z, hp) == IF z.tag = "ref" THEN hp[z.id] ELSE z.obj

\* matrix_op.matvec with the given orientation
OpMatvec(name, transposed, b) ==
    LET mat == IF transposed THEN Transpose(OpMat(name)) ELSE OpMat(name) IN
    IF b.kind # "vec" THEN NotImpl
    ELSE IF Len(b.val) # NumCols(mat) THEN Raised
    ELSE New(VecObj(MatVecMul(mat, b.val)))

\* op * b for an operator object op
OpMul(name, b) ==
    CASE name = "NA" -> NotImpl
      [] name = "LZ" -> New(OtherObj)
      [] OTHER       -> OpMatvec(name, FALSE, b)

\* op.transpmult(b) for an operator object op
OpTranspmult(name, b) ==
    CASE name = "NA" -> NotImpl
      [] name = "LZ" -> New(OtherObj)
      [] OTHER       -> OpMatvec(name, TRUE, b)

\* c * b for a numeric scalar c
ScalarMul(c, b) ==
    IF b.kind = "vec" THEN New(VecObj(VecScale(c, b.val))) ELSE New(OtherObj)

----------------------------------------------------------------------------
(* block_mat.matvec, one slot per step                                     *)

SlotIsSkip(s) == s.k = "none" \/ (s.k = "scalar" /\ s.v = 0)

SlotIsOne(s) == s.k = "scalar" /\ s.v = 1

\* the contribution z of slot s for the block with heap id xid
MatvecZ(s, xid, hp) ==
    IF SlotIsOne(s) THEN Ref(xid)
    ELSE IF s.k = "gm"
         THEN (IF Len(hp[xid].val) # NumCols(OpMat(s.name)) THEN Raised
               ELSE New(VecObj(MatVecMul(OpMat(s.name), hp[xid].val))))
    ELSE IF s.k = "scalar" THEN ScalarMul(s.v, hp[xid])
    ELSE OpMul(s.name, hp[xid])

IsVector(obj) == obj.kind = "vec"

NoErr == [kind |-> "", i |-> 0, j |-> 0, a |-> 0, b |-> 0]
\* 'unexpected result in matvec'
TypeErr == [kind |-> "type", i |-> 0, j |-> 0, a |-> 0, b |-> 0]
\* an exception leaving an operator's own multiply
OpErr == [kind |-> "op", i |-> 0, j |-> 0, a |-> 0, b |-> 0]
\* mutant: the two lengths reported in the wrong order
DimErrSwapped(i, j, lz, ly) == [kind |-> "dim", i |-> i, j |-> j, a |-> ly, b |-> lz]

\* 'incompatible dimensions in block (%d,%d) -- %d, was %d'
DimErr(i, j, lz, ly) == [kind |-> "dim", i |-> i, j |-> j, a |-> lz, b |-> ly]
\* an index outside the container
IndexErr == [kind |-> "index", i |-> 0, j |-> 0, a |-> 0, b |-> 0]

Rows == Len(M)
Cols == Len(M[1])

\* y[i] += z, in place
IAdd(hp, yid, zobj) ==
    [hp EXCEPT ![yid] = VecObj(VecAdd(hp[yid].val, zobj.val))]

\* the heap once z exists, and z's id in it
HeapWith(hp, z) == IF z.tag = "new" THEN Append(hp, z.obj) ELSE hp
IdOf(hp, z)     == IF z.tag = "new" THEN Len(hp) + 1 ELSE z.id

\* "continue": the next (i, j) of the double loop whose inner bound is inner
NextI(i, j, inner) == IF j < inner THEN i ELSE i + 1
NextJ(i, j, inner) == IF j < inner THEN j + 1 ELSE 1

CallMatvec(xv) ==
    /\ pc = "idle"
    /\ Len(xv) = Cols
    /\ mode' = "matvec"
    /\ pc' = "loop"
    /\ heap' = [k \in 1..Len(xv) |-> VecObj(xv[k])]
    /\ x' = [k \in 1..Len(xv) |-> k]
    /\ xin' = xv
    /\ y' = [k \in 1..Rows |-> 0]
    /\ bi' = 1 /\ bj' = 1
    /\ UNCHANGED <<M, err, calls, compvars, extvars>>

InMatvecLoop == mode = "matvec" /\ pc = "loop" /\ bi <= Rows

MvSkip ==
    /\ InMatvecLoop
    /\ SlotIsSkip(M[bi][bj])
    /\ bi' = NextI(bi, bj, Cols) /\ bj' = NextJ(bi, bj, Cols)
    /\ UNCHANGED <<M, x, xin, heap, y, mode, pc, err, calls, compvars, extvars>>

\* mutant: the NotImplemented check is missing and the loop goes on
MvNotImplementedUnchecked ==
    /\ InMatvecLoop
    /\ ~SlotIsSkip(M[bi][bj])
    /\ MatvecZ(M[bi][bj], x[bj], heap).tag = "ni"
    /\ calls' = Append(calls, <<bi, bj>>)
    /\ bi' = NextI(bi, bj, Cols) /\ bj' = NextJ(bi, bj, Cols)
    /\ UNCHANGED <<M, x, xin, heap, y, mode, pc, err, compvars, extvars>>

MvNotImplemented ==
    /\ InMatvecLoop
    /\ ~SlotIsSkip(M[bi][bj])
    /\ MatvecZ(M[bi][bj], x[bj], heap).tag = "ni"
    /\ pc' = "notimpl"
    /\ calls' = Append(calls, <<bi, bj>>)
    /\ UNCHANGED <<M, x, xin, heap, y, bi, bj, mode, err, compvars, extvars>>

MvRaise ==
    /\ InMatvecLoop
    /\ ~SlotIsSkip(M[bi][bj])
    /\ LET z == MatvecZ(M[bi][bj], x[bj], heap)
           zo == ObjOf(z, heap)
       IN /\ z.tag # "ni"
          /\ \/ z.tag = "raise"
             \/ ~IsVector(zo)
             \/ y[bi] # 0 /\ Len(heap[y[bi]].val) # Len(zo.val)
          /\ err' = IF z.tag = "raise" THEN OpErr
                    ELSE IF ~IsVector(zo) THEN TypeErr
                    ELSE DimErr(bi - 1, bj - 1, Len(zo.val), Len(heap[y[bi]].val))
    /\ pc' = "raised"
    /\ calls' = Append(calls, <<bi, bj>>)
    /\ UNCHANGED <<M, x, xin, heap, y, bi, bj, mode, compvars, extvars>>

MvStore ==
    /\ InMatvecLoop
    /\ ~SlotIsSkip(M[bi][bj])
    /\ LET z == MatvecZ(M[bi][bj], x[bj], heap) IN
          /\ z.tag \in {"ref", "new"}
          /\ IsVector(ObjOf(z, heap))
          /\ y[bi] = 0
          /\ heap' = HeapWith(heap, z)
          /\ y' = [y EXCEPT ![bi] = IdOf(heap, z)]
    /\ calls' = Append(calls, <<bi, bj>>)
    /\ bi' = NextI(bi, bj, Cols) /\ bj' = NextJ(bi, bj, Cols)
    /\ UNCHANGED <<M, x, xin, mode, pc, err, compvars, extvars>>

MvAccumulate ==
    /\ InMatvecLoop
    /\ ~SlotIsSkip(M[bi][bj])
    /\ LET z == MatvecZ(M[bi][bj], x[bj], heap)
           zo == ObjOf(z, heap)
       IN /\ z.tag \in {"ref", "new"}
          /\ IsVector(zo)
          /\ y[bi] # 0
          /\ Len(heap[y[bi]].val) = Len(zo.val)
          /\ heap' = IAdd(heap, y[bi], zo)
    /\ calls' = Append(calls, <<bi, bj>>)
    /\ bi' = NextI(bi, bj, Cols) /\ bj' = NextJ(bi, bj, Cols)
    /\ UNCHANGED <<M, x, xin, y, mode, pc, err, compvars, extvars>>

MvReturn ==
    /\ mode = "matvec" /\ pc = "loop" /\ bi > Rows
    /\ pc' = "returned"
    /\ UNCHANGED <<M, x, xin, heap, y, bi, bj, mode, err, calls, compvars, extvars>>

----------------------------------------------------------------------------
(* block_mat.transpmult, one slot per step: i runs over range(n), j over   *)
(* range(m); the slot read for the contribution is self[j,i]               *)

\* whether (i, j) indexes a slot of the container
InGrid(i, j) == i <= Rows /\ j <= Cols

\* the contribution z at loop position (i, j), for the block with heap id xid
TranspZ(mat, i, j, xid, hp) ==
    LET s == mat[j][i] IN
    IF SlotIsOne(mat[i][j]) THEN Ref(xid)
    ELSE IF s.k = "scalar" THEN ScalarMul(s.v, hp[xid])
    ELSE OpTranspmult(s.name, hp[xid])

\* the length of the block vector transpmult allocates for its result
TranspResultLen == Rows

CallTranspmult(xv) ==
    /\ pc = "idle"
    /\ Len(xv) = Rows
    /\ mode' = "transpmult"
    /\ pc' = "loop"
    /\ heap' = [k \in 1..Len(xv) |-> VecObj(xv[k])]
    /\ x' = [k \in 1..Len(xv) |-> k]
    /\ xin' = xv
    /\ y' = [k \in 1..TranspResultLen |-> 0]
    /\ bi' = 1 /\ bj' = 1
    /\ UNCHANGED <<M, err, calls, compvars, extvars>>

InTranspLoop == mode = "transpmult" /\ pc = "loop" /\ bi <= Cols

TmSkip ==
    /\ InTranspLoop
    /\ SlotIsSkip(M[bj][bi])
    /\ bi' = NextI(bi, bj, Rows) /\ bj' = NextJ(bi, bj, Rows)
    /\ UNCHANGED <<M, x, xin, heap, y, mode, pc, err, calls, compvars, extvars>>

\* self[i,j] or y[i] outside the container
TmIndexError ==
    /\ InTranspLoop
    /\ ~SlotIsSkip(M[bj][bi])
    /\ \/ ~InGrid(bi, bj)
       \/ bi > Len(y)
    /\ pc' = "raised"
    /\ err' = IndexErr
    /\ calls' = IF InGrid(bi, bj) THEN Append(calls, <<bj, bi>>) ELSE calls
    /\ UNCHANGED <<M, x, xin, heap, y, bi, bj, mode, compvars, extvars>>

TmRaise ==
    /\ InTranspLoop
    /\ ~SlotIsSkip(M[bj][bi])
    /\ InGrid(bi, bj)
    /\ LET z == TranspZ(M, bi, bj, x[bj], heap)
           zo == ObjOf(z, heap)
       IN /\ \/ z.tag = "raise"
             \/ ~IsVector(zo)
             \/ /\ bi <= Len(y)
                /\ y[bi] # 0
                /\ Len(heap[y[bi]].val) # Len(zo.val)
          /\ err' = IF z.tag = "raise" THEN OpErr
                    ELSE IF ~IsVector(zo) THEN TypeErr
                    ELSE DimErr(bi - 1, bj - 1, Len(zo.val), Len(heap[y[bi]].val))
    /\ pc' = "raised"
    /\ calls' = Append(calls, <<bj, bi>>)
    /\ UNCHANGED <<M, x, xin, heap, y, bi, bj, mode, compvars, extvars>>

TmStore ==
    /\ InTranspLoop
    /\ ~SlotIsSkip(M[bj][bi])
    /\ InGrid(bi, bj)
    /\ bi <= Len(y)
    /\ LET z == TranspZ(M, bi, bj, x[bj], heap) IN
          /\ z.tag \in {"ref", "new"}
          /\ IsVector(ObjOf(z, heap))
          /\ y[bi] = 0
          /\ heap' = HeapWith(heap, z)
          /\ y' = [y EXCEPT ![bi] = IdOf(heap, z)]
    /\ calls' = Append(calls, <<bj, bi>>)
    /\ bi' = NextI(bi, bj, Rows) /\ bj' = NextJ(bi, bj, Rows)
    /\ UNCHANGED <<M, x, xin, mode, pc, err, compvars, extvars>>

TmAccumulate ==
    /\ InTranspLoop
    /\ ~SlotIsSkip(M[bj][bi])
    /\ InGrid(bi, bj)
    /\ bi <= Len(y)
    /\ LET z == TranspZ(M, bi, bj, x[bj], heap)
           zo == ObjOf(z, heap)
       IN /\ z.tag \in {"ref", "new"}
          /\ IsVector(zo)
          /\ y[bi] # 0
          /\ Len(heap[y[bi]].val) = Len(zo.val)
          /\ heap' = IAdd(heap, y[bi], zo)
    /\ calls' = Append(calls, <<bj, bi>>)
    /\ bi' = NextI(bi, bj, Rows) /\ bj' = NextJ(bi, bj, Rows)
    /\ UNCHANGED <<M, x, xin, y, mode, pc, err, compvars, extvars>>

TmReturn ==
    /\ mode = "transpmult" /\ pc = "loop" /\ bi > Cols
    /\ pc' = "returned"
    /\ UNCHANGED <<M, x, xin, heap, y, bi, bj, mode, err, calls, compvars, extvars>>

----------------------------------------------------------------------------
(* Operands of block_compose                                               *)

CScalar(c) == [k |-> "scalar",  v |-> c, name |-> "",  chain |-> <<>>]
COp(nm)    == [k |-> "op",      v |-> 0, name |-> nm,  chain |-> <<>>]
\* a block_add object, block_add(A, B) of the operators "A" and "B"
CAdd       == [k |-> "add",     v |-> 0, name |-> "",  chain |-> <<>>]
\* a block_compose object with the given chain
CNode(ch)  == [k |-> "compose", v |-> 0, name |-> "",  chain |-> ch]

\* the operands user code composes
Leaves == {CScalar(1), CScalar(-1), COp("A"), COp("B"), COp("NA")}

\* what an apply may be called with: a vector, or something that is none
CInputs == {VecObj(v) : v \in XVals} \cup {OtherObj}

NIObj    == [kind |-> "ni",    val |-> <<>>]
\* an exception instead of a value
RaiseObj == [kind |-> "raise", val |-> <<>>]

\* the value of a multiplication's result
ResObj(z) ==
    CASE z.tag = "ni"    -> NIObj
      [] z.tag = "raise" -> RaiseObj
      [] OTHER           -> z.obj

Reverse(sq) == [k \in 1..Len(sq) |-> sq[Len(sq) + 1 - k]]

\* A.chain if isinstance(A, block_compose) else [A]
ChainOf(A) == IF A.k = "compose" THEN A.chain ELSE <<A>>

\* mutant: the first argument is not flattened
ComposeInitNested(A, B) == ChainOf(B) \o <<A>>

\* mutant: the chains are joined in the order of the arguments
ComposeInitForward(A, B) == ChainOf(A) \o ChainOf(B)

\* block_compose.__init__: the chain of block_compose(A, B)
ComposeInit(A, B) == ChainOf(B) \o ChainOf(A)

\* mutant: B's list is extended in place and shared with the new node
NodesAfterInPlace(pool, A, B) ==
    Append([k \in 1..Len(pool) |->
               IF pool[k] = B THEN CNode(ComposeInit(A, B)) ELSE pool[k]],
           CNode(ComposeInit(A, B)))

\* the objects alive after block_compose(A, B): B+A is a new list
NodesAfter(pool, A, B) == Append(pool, CNode(ComposeInit(A, B)))

\* block_add.__mul__ for block_add(A, B)
AddMul(b) ==
    IF b.kind # "vec" THEN NIObj
    ELSE LET ya == ResObj(OpMul("A", b))
             yb == ResObj(OpMul("B", b))
         IN VecObj(VecAdd(ya.val, yb.val))

RECURSIVE ApplyChain(_, _, _)
RECURSIVE FactorMul(_, _)

\* op * b for an element op of a chain
FactorMul(op, b) ==
    CASE op.k = "scalar"  -> (IF b.kind = "ni" THEN RaiseObj ELSE ResObj(ScalarMul(op.v, b)))
      [] op.k = "op"      -> ResObj(OpMul(op.name, b))
      [] op.k = "add"     -> AddMul(b)
      [] OTHER            -> ApplyChain(op.chain, b, 1)

\* block_compose.__mul__ from element k of the chain on
ApplyChain(ch, b, k) ==
    IF k > Len(ch) THEN b
    ELSE LET r == FactorMul(ch[k], b) IN
         IF r.kind \in {"ni", "raise"} THEN r
         ELSE ApplyChain(ch, r, k + 1)

IsScalar(op) == op.k = "scalar"

\* mutant: the chain is walked in stored order
TranspOrderForward(ch) == ch

\* reversed(self.chain)
TranspOrder(ch) == Reverse(ch)

RECURSIVE TranspChain(_, _, _)
RECURSIVE FactorTransp(_, _)

\* op.transpmult(b) for a non-scalar element op of a chain
FactorTransp(op, b) ==
    CASE op.k = "op"      -> ResObj(OpTranspmult(op.name, b))
      [] op.k = "add"     -> RaiseObj
      [] OTHER            -> TranspChain(TranspOrder(op.chain), b, 1)

\* one iteration of the loop of block_compose.transpmult
TranspStep(op, b) ==
    IF IsScalar(op)
    THEN (IF op.v # 1 THEN FactorMul(op, b) ELSE b)
    ELSE FactorTransp(op, b)

\* block_compose.transpmult over the (reversed) chain rv, from element k on
TranspChain(rv, b, k) ==
    IF k > Len(rv) THEN b
    ELSE LET r == TranspStep(rv[k], b) IN
         IF r.kind = "raise" THEN r
         ELSE TranspChain(rv, r, k + 1)

----------------------------------------------------------------------------
(* Building block_compose objects                                          *)

Operands == Leaves \cup {nodes[k] : k \in 1..Len(nodes)}

\* block_compose(A, B)
Compose(A, B) ==
    /\ cpc = "idle"
    /\ Len(nodes) < MaxNodes
    /\ nodes' = NodesAfter(nodes, A, B)
    /\ built' = Append(built, <<A, B>>)
    /\ UNCHANGED <<cchain, cargs, ck, cx, cin, clog, cmode, cpc, matvars, extvars>>

\* block_add.__neg__: block_compose(-1, self)
NegAdd ==
    /\ cpc = "idle"
    /\ Len(nodes) < MaxNodes
    /\ nodes' = NodesAfter(nodes, CScalar(-1), CAdd)
    /\ built' = Append(built, <<CScalar(-1), CAdd>>)
    /\ UNCHANGED <<cchain, cargs, ck, cx, cin, clog, cmode, cpc, matvars, extvars>>

----------------------------------------------------------------------------
(* block_compose.__mul__, one factor per step                              *)

LogEntry(op, inp, out) == [op |-> op, inp |-> inp, out |-> out]

CallMul(k, b) ==
    /\ cpc = "idle"
    /\ k = Len(nodes)
    /\ cmode' = "mul" /\ cpc' = "loop"
    /\ cchain' = nodes[k].chain
    /\ cargs' = built[k]
    /\ ck' = 0
    /\ cx' = b /\ cin' = b
    /\ clog' = <<>>
    /\ UNCHANGED <<nodes, built, matvars, extvars>>

InMulLoop == cmode = "mul" /\ cpc = "loop" /\ ck < Len(cchain)

\* mutant: the result is not compared with NotImplemented
CmNotImplementedUnchecked ==
    /\ InMulLoop
    /\ FactorMul(cchain[ck + 1], cx).kind = "ni"
    /\ cx' = NIObj
    /\ clog' = Append(clog, LogEntry(cchain[ck + 1], cx, NIObj))
    /\ ck' = ck + 1
    /\ UNCHANGED <<nodes, built, cchain, cargs, cin, cmode, cpc, matvars, extvars>>

CmStep ==
    /\ InMulLoop
    /\ LET r == FactorMul(cchain[ck + 1], cx) IN
          /\ r.kind \notin {"ni", "raise"}
          /\ cx' = r
          /\ clog' = Append(clog, LogEntry(cchain[ck + 1], cx, r))
    /\ ck' = ck + 1
    /\ UNCHANGED <<nodes, built, cchain, cargs, cin, cmode, cpc, matvars, extvars>>

CmNotImplemented ==
    /\ InMulLoop
    /\ FactorMul(cchain[ck + 1], cx).kind = "ni"
    /\ cx' = NIObj
    /\ clog' = Append(clog, LogEntry(cchain[ck + 1], cx, NIObj))
    /\ ck' = ck + 1
    /\ cpc' = "notimpl"
    /\ UNCHANGED <<nodes, built, cchain, cargs, cin, cmode, matvars, extvars>>

CmReturn ==
    /\ cmode = "mul" /\ cpc = "loop" /\ ck = Len(cchain)
    /\ cpc' = "returned"
    /\ UNCHANGED <<nodes, built, cchain, cargs, ck, cx, cin, clog, cmode, matvars, extvars>>

----------------------------------------------------------------------------
(* block_compose.transpmult, one factor per step                           *)

CallCompTransp(k, b) ==
    /\ cpc = "idle"
    /\ k = Len(nodes)
    /\ cmode' = "transp" /\ cpc' = "loop"
    /\ cchain' = nodes[k].chain
    /\ cargs' = built[k]
    /\ ck' = 0
    /\ cx' = b /\ cin' = b
    /\ clog' = <<>>
    /\ UNCHANGED <<nodes, built, matvars, extvars>>

InCompTranspLoop == cmode = "transp" /\ cpc = "loop" /\ ck < Len(cchain)

\* the element the next iteration works on
TranspCur == TranspOrder(cchain)[ck + 1]

\* a scalar equal to 1: nothing is done
CtSkipOne ==
    /\ InCompTranspLoop
    /\ IsScalar(TranspCur) /\ TranspCur.v = 1
    /\ ck' = ck + 1
    /\ UNCHANGED <<nodes, built, cchain, cargs, cx, cin, clog, cmode, cpc, matvars, extvars>>

CtStep ==
    /\ InCompTranspLoop
    /\ ~(IsScalar(TranspCur) /\ TranspCur.v = 1)
    /\ LET r == TranspStep(TranspCur, cx) IN
          /\ r.kind # "raise"
          /\ cx' = r
          /\ clog' = Append(clog, LogEntry(TranspCur, cx, r))
    /\ ck' = ck + 1
    /\ UNCHANGED <<nodes, built, cchain, cargs, cin, cmode, cpc, matvars, extvars>>

\* the factor's own exception leaves transpmult
CtRaise ==
    /\ InCompTranspLoop
    /\ ~(IsScalar(TranspCur) /\ TranspCur.v = 1)
    /\ TranspStep(TranspCur, cx).kind = "raise"
    /\ clog' = Append(clog, LogEntry(TranspCur, cx, RaiseObj))
    /\ cx' = RaiseObj
    /\ ck' = ck + 1
    /\ cpc' = "raised"
    /\ UNCHANGED <<nodes, built, cchain, cargs, cin, cmode, matvars, extvars>>

CtReturn ==
    /\ cmode = "transp" /\ cpc = "loop" /\ ck = Len(cchain)
    /\ cpc' = "returned"
    /\ UNCHANGED <<nodes, built, cchain, cargs, ck, cx, cin, clog, cmode, matvars, extvars>>

----------------------------------------------------------------------------
(* The block_mat specification: a matrix, then one matvec or transpmult    *)

BlockVecs(len) == [1..len -> XVals]

MatIdle ==
    /\ x = <<>> /\ xin = <<>> /\ heap = <<>> /\ y = <<>>
    /\ bi = 0 /\ bj = 0
    /\ mode = "idle" /\ pc = "idle"
    /\ err = NoErr
    /\ calls = <<>>

CompIdle ==
    /\ cchain = <<>> /\ cargs = <<>>
    /\ ck = 0
    /\ cx = OtherObj /\ cin = OtherObj
    /\ clog = <<>>
    /\ cmode = "idle" /\ cpc = "idle"

AddIdle ==
    /\ sk = 0
    /\ sheap = <<>>
    /\ sxin = OtherObj
    /\ sy = 0
    /\ sz = OtherObj
    /\ sevals = <<>>
    /\ spc = "idle"
    /\ serr = NoErr

SumIdle ==
    /\ snodes = <<>> /\ sfrom = <<>>
    /\ AddIdle

EpCallIdle ==
    /\ ecall = "idle"
    /\ earg = OtherObj
    /\ escale = <<1, 1>>
    /\ eout = OtherObj
    /\ epc = "idle"
    /\ ecalls = 0

EpIdle ==
    /\ eself = OtherObj /\ econ = OtherObj
    /\ EpCallIdle

CopyCallIdle ==
    /\ cpY = <<>>
    /\ cpi = 0 /\ cpj = 0
    /\ cppc = "idle"
    /\ cperr = NoErr

CopyIdle ==
    /\ cpM = <<>>
    /\ CopyCallIdle

\* no attribute of the object is set before __init__ runs
PrecIdle ==
    /\ pargs = [prectype |-> "none", parameters |-> "none", precond |-> "null"]
    /\ pself = [A |-> "unset", parameters |-> "unset", precond |-> "unset",
                prectype |-> "unset"]
    /\ pwarned = FALSE
    /\ ppc = "idle"
    /\ perr = ""

ExtIdle ==
    /\ SumIdle
    /\ EpIdle
    /\ CopyIdle
    /\ PrecIdle

Init ==
    /\ M \in Matrices
    /\ MatIdle
    /\ nodes = <<>> /\ built = <<>>
    /\ CompIdle
    /\ ExtIdle

Next ==
    \/ \E xv \in BlockVecs(Cols) : CallMatvec(xv)
    \/ MvSkip
    \/ MvNotImplemented
    \/ MvRaise
    \/ MvStore
    \/ MvAccumulate
    \/ MvReturn
    \/ \E xv \in BlockVecs(Rows) : CallTranspmult(xv)
    \/ TmSkip
    \/ TmIndexError
    \/ TmRaise
    \/ TmStore
    \/ TmAccumulate
    \/ TmReturn

Spec == Init /\ [][Next]_vars

----------------------------------------------------------------------------
(* The block_compose specification: compositions, then one apply           *)

InitCompose ==
    /\ M = <<<<NoneSlot>>>>
    /\ MatIdle
    /\ nodes = <<>> /\ built = <<>>
    /\ CompIdle
    /\ ExtIdle

NextCompose ==
    \/ \E A \in Operands, B \in Operands : Compose(A, B)
    \/ NegAdd
    \/ \E k \in 1..Len(nodes), b \in CInputs : CallMul(k, b)
    \/ CmStep
    \/ CmNotImplemented
    \/ CmReturn
    \/ \E k \in 1..Len(nodes), b \in CInputs : CallCompTransp(k, b)
    \/ CtSkipOne
    \/ CtStep
    \/ CtRaise
    \/ CtReturn

SpecCompose == InitCompose /\ [][NextCompose]_vars

----------------------------------------------------------------------------
(* block_add and block_sub: construction, negation, __mul__ line by line   *)

\* at most this many block_add / block_sub objects exist
MaxSumNodes == 3

SumNode(op, A, B) == [op |-> op, A |-> A, B |-> B]

\* the operands user code adds and subtracts
SumLeaves == {COp("A"), COp("B"), COp("NA"), CScalar(2)}

\* block_add.__init__ / block_sub.__init__
NewSum(op, A, B) ==
    /\ spc = "idle"
    /\ snodes = <<>>
    /\ snodes' = <<SumNode(op, A, B)>>
    /\ sfrom' = <<0>>
    /\ UNCHANGED <<sk, sheap, sxin, sy, sz, sevals, spc, serr, matvars, compvars, restvars>>

\* mutant: the negation keeps the order of the operands
SubNegNodeKept(n) == SumNode("sub", n.A, n.B)

\* block_sub.__neg__: block_sub(self.B, self.A)
SubNegNode(n) == SumNode("sub", n.B, n.A)

SubNeg(k) ==
    /\ spc = "idle"
    /\ Len(snodes) < MaxSumNodes
    /\ snodes[k].op = "sub"
    /\ snodes' = Append(snodes, SubNegNode(snodes[k]))
    /\ sfrom' = Append(sfrom, k)
    /\ UNCHANGED <<sk, sheap, sxin, sy, sz, sevals, spc, serr, matvars, compvars, restvars>>

\* block_add.__mul__ / block_sub.__mul__ is entered
CallSumMul(k, b) ==
    /\ spc = "idle"
    /\ sk' = k
    /\ sheap' = <<b>>
    /\ sxin' = b
    /\ spc' = "check"
    /\ UNCHANGED <<snodes, sfrom, sy, sz, sevals, serr, matvars, compvars, restvars>>

\* if not isinstance(x, (GenericVector, block_vec)): return NotImplemented
SmNotVector ==
    /\ spc = "check"
    /\ ~IsVector(sheap[1])
    /\ spc' = "notimpl"
    /\ UNCHANGED <<snodes, sfrom, sk, sheap, sxin, sy, sz, sevals, serr, matvars, compvars, restvars>>

\* y = self.A*x
SmEvalA ==
    /\ spc = "check"
    /\ IsVector(sheap[1])
    /\ sheap' = Append(sheap, FactorMul(snodes[sk].A, sheap[1]))
    /\ sy' = Len(sheap) + 1
    /\ sevals' = Append(sevals, "A")
    /\ spc' = "gotA"
    /\ UNCHANGED <<snodes, sfrom, sk, sxin, sz, serr, matvars, compvars, restvars>>

\* the right-hand side self.B*x of the augmented assignment
SmEvalB ==
    /\ spc = "gotA"
    /\ sz' = FactorMul(snodes[sk].B, sheap[1])
    /\ sevals' = Append(sevals, "B")
    /\ spc' = "gotB"
    /\ UNCHANGED <<snodes, sfrom, sk, sheap, sxin, sy, serr, matvars, compvars, restvars>>

\* TypeError: unsupported operand type(s)
OperandErr == [kind |-> "operand", i |-> 0, j |-> 0, a |-> 0, b |-> 0]

VecSub(u, v) == VecAdd(u, VecScale(-1, v))

\* mutant: the accumulation adds whatever the node is
SumUpdateAddOnly(op, u, v) == VecAdd(u, v)

\* the value y holds after y += z (block_add) or y -= z (block_sub)
SumUpdate(op, u, v) == IF op = "add" THEN VecAdd(u, v) ELSE VecSub(u, v)

\* y += z / y -= z on two vectors: y is updated in place
SmAccumulate ==
    /\ spc = "gotB"
    /\ IsVector(sheap[sy]) /\ IsVector(sz)
    /\ sheap' = [sheap EXCEPT
                   ![sy] = VecObj(SumUpdate(snodes[sk].op, sheap[sy].val, sz.val))]
    /\ spc' = "acc"
    /\ UNCHANGED <<snodes, sfrom, sk, sxin, sy, sz, sevals, serr, matvars, compvars, restvars>>

\* y += z / y -= z when y or z is NotImplemented: no __iadd__/__isub__,
\* __add__/__sub__ or reflected method accepts it, Python raises TypeError
SmTypeError ==
    /\ spc = "gotB"
    /\ ~(IsVector(sheap[sy]) /\ IsVector(sz))
    /\ spc' = "raised"
    /\ serr' = OperandErr
    /\ UNCHANGED <<snodes, sfrom, sk, sheap, sxin, sy, sz, sevals, matvars, compvars, restvars>>

\* return y
SmReturn ==
    /\ spc = "acc"
    /\ spc' = "returned"
    /\ UNCHANGED <<snodes, sfrom, sk, sheap, sxin, sy, sz, sevals, serr, matvars, compvars, restvars>>

InitSum ==
    /\ M = <<<<NoneSlot>>>>
    /\ MatIdle
    /\ nodes = <<>> /\ built = <<>>
    /\ CompIdle
    /\ ExtIdle

NextSum ==
    \/ \E op \in {"add", "sub"}, A \in SumLeaves, B \in SumLeaves : NewSum(op, A, B)
    \/ \E k \in 1..Len(snodes) : SubNeg(k)
    \/ \E k \in 1..Len(snodes), b \in CInputs : CallSumMul(k, b)
    \/ SmNotVector
    \/ SmEvalA
    \/ SmEvalB
    \/ SmAccumulate
    \/ SmTypeError
    \/ SmReturn

SpecSum == InitSum /\ [][NextSum]_vars

----------------------------------------------------------------------------
(* Epetra.py: matrix_op, diag_op and _collapse                             *)

\* at most this many method calls are made on the operator
MaxCalls == 2

EMat(m, t) == [kind |-> "mat",    M |-> m,    v |-> <<>>,  t |-> t]
EDiag(d)   == [kind |-> "diag",   M |-> <<>>, v |-> d,     t |-> FALSE]
\* a numeric scalar (numpy.isscalar)
EScal(c)   == [kind |-> "scalar", M |-> <<>>, v |-> <<c>>, t |-> FALSE]
\* an Epetra.Vector
EVec(d)    == [kind |-> "vec",    M |-> <<>>, v |-> d,     t |-> FALSE]
\* an exception instead of a value
ERaise(e)  == [kind |-> "raise",  M |-> <<>>, v |-> <<>>,  t |-> FALSE, err |-> e]

MatScale(c, m) == [i \in 1..NumRows(m) |-> [j \in 1..NumCols(m) |-> c * m[i][j]]]

MatAdd(a, b) == [i \in 1..NumRows(a) |-> [j \in 1..NumCols(a) |-> a[i][j] + b[i][j]]]

MatMul(a, b) ==
    [i \in 1..NumRows(a) |-> [j \in 1..NumCols(b) |->
        SumTo([k \in 1..NumCols(a) |-> a[i][k] * b[k][j]], NumCols(a))]]

\* Epetra_CrsMatrix::RightScale / LeftScale
RightScale(m, d) == [i \in 1..NumRows(m) |-> [j \in 1..NumCols(m) |-> m[i][j] * d[j]]]
LeftScale(m, d)  == [i \in 1..NumRows(m) |-> [j \in 1..NumCols(m) |-> d[i] * m[i][j]]]

\* Epetra_CrsMatrix::ExtractDiagonalCopy / ReplaceDiagonalValues
ExtractDiagonal(m) == [i \in 1..NumRows(m) |-> m[i][i]]
ReplaceDiagonal(m, d) ==
    [i \in 1..NumRows(m) |-> [j \in 1..NumCols(m) |-> IF i = j THEN d[i] ELSE m[i][j]]]

DiagMat(d) == [i \in 1..Len(d) |-> [j \in 1..Len(d) |-> IF i = j THEN d[i] ELSE 0]]

\* the matrix an operator stands for
Dense(op) ==
    IF op.kind = "diag" THEN DiagMat(op.v)
    ELSE IF op.t THEN Transpose(op.M) ELSE op.M

\* diag_op.__init__
DiagInit(val) == IF val.kind = "vec" THEN EDiag(val.v) ELSE ERaise("AssertionError")

\* matrix_op.matvec
MatrixMatvec(self, b) ==
    IF b.kind # "vec" THEN NIObj
    ELSE LET domainlen == IF self.t THEN NumRows(self.M) ELSE NumCols(self.M) IN
         IF Len(b.val) # domainlen THEN RaiseObj
         ELSE VecObj(MatVecMul(Dense(self), b.val))

\* diag_op.matvec (and diag_op.transpmult, which is the same function)
DiagMatvec(self, b) ==
    IF b.kind # "vec" THEN NIObj
    ELSE IF Len(self.v) # Len(b.val) THEN RaiseObj
    ELSE VecObj([i \in 1..Len(b.val) |-> self.v[i] * b.val[i]])

\* matrix_op.matmat
MatrixMatmat(self, other) ==
    CASE other.kind = "scalar" ->
            EMat(IF other.v[1] # 1 THEN MatScale(other.v[1], self.M) ELSE self.M, self.t)
      [] other.kind = "mat" ->
            EMat(MatMul(Dense(self), Dense(other)), FALSE)
      [] other.kind = "diag" ->
            EMat(RightScale(self.M, other.v), self.t)
      [] OTHER -> ERaise("TypeError")

\* diag_op.matmat
DiagMatmat(self, other) ==
    CASE other.kind = "scalar" -> DiagInit(other)
      [] other.kind = "mat" -> EMat(LeftScale(other.M, self.v), FALSE)
      [] other.kind = "diag" ->
            DiagInit(EVec([i \in 1..Len(self.v) |-> self.v[i] * other.v[i]]))
      [] OTHER -> ERaise("TypeError")

Matmat(self, other) ==
    IF self.kind = "mat" THEN MatrixMatmat(self, other) ELSE DiagMatmat(self, other)

\* Diag.__init__: the diagonal of a matrix operator
DiagOf(A) == DiagInit(EVec(ExtractDiagonal(A.M)))

\* x.Update(rscale, other.vec(), lscale) on a copy x of self.v
DiagUpdate(self, other, lscale, rscale) ==
    DiagInit(EVec([i \in 1..Len(self.v) |-> lscale * self.v[i] + rscale * other.v[i]]))

\* matrix_op.add for another matrix operator
MatrixAddMatrix(self, other, lscale, rscale) ==
    EMat(MatAdd(MatScale(lscale, Dense(self)), MatScale(rscale, Dense(other))), FALSE)

\* matrix_op.add for a diagonal operator
MatrixAddDiag(self, other, lscale, rscale) ==
    LET lhs == MatrixMatmat(self, EScal(lscale))
        D   == DiagUpdate(DiagOf(lhs), other, 1, rscale)
    IN EMat(ReplaceDiagonal(lhs.M, D.v), lhs.t)

\* matrix_op.add
MatrixAdd(self, other, lscale, rscale) ==
    CASE other.kind = "mat"  -> MatrixAddMatrix(self, other, lscale, rscale)
      [] other.kind = "diag" -> MatrixAddDiag(self, other, lscale, rscale)
      [] OTHER -> ERaise("TypeError")

\* diag_op.add
DiagAdd(self, other, lscale, rscale) ==
    LET o == IF other.kind = "scalar"
             THEN DiagInit(EVec([i \in 1..Len(self.v) |-> other.v[1]]))
             ELSE other
    IN CASE o.kind = "mat"  -> MatrixAdd(o, self, 1, 1)
         [] o.kind = "diag" -> DiagUpdate(self, o, lscale, rscale)
         [] OTHER -> ERaise("TypeError")

OpAdd(self, other, lscale, rscale) ==
    IF self.kind = "mat" THEN MatrixAdd(self, other, lscale, rscale)
    ELSE DiagAdd(self, other, lscale, rscale)

\* the concrete operator a leaf of an expression tree is
EOf(name) == IF name = "D" THEN EDiag(<<2, 3>>) ELSE EMat(OpMat(name), FALSE)

IsScalarE(A) == A.kind = "scalar"

\* a block_add / block_sub object (the other operands have a field k)
IsSumNode(t) == "op" \in DOMAIN t

RECURSIVE CollapseFold(_)
\* _collapse, the loop "while len(factors) > 1"
CollapseFold(factors) ==
    IF Len(factors) = 1 THEN factors[1]
    ELSE LET n == Len(factors)
             A == factors[n]
             B == factors[n - 1]
             C == IF IsScalarE(A) /\ IsScalarE(B) THEN EScal(A.v[1] * B.v[1])
                  ELSE IF IsScalarE(A) THEN Matmat(B, A) ELSE Matmat(A, B)
         IN IF C.kind = "raise" THEN C
            ELSE CollapseFold(Append(SubSeq(factors, 1, n - 2), C))

\* _collapse, the branches for block_add and block_sub
CollapseSum(op, A, B) ==
    IF A.kind = "raise" THEN A
    ELSE IF B.kind = "raise" THEN B
    ELSE IF IsScalarE(A) /\ IsScalarE(B)
         THEN EScal(IF op = "add" THEN A.v[1] + B.v[1] ELSE A.v[1] - B.v[1])
    ELSE IF op = "add"
         THEN (IF IsScalarE(A) THEN OpAdd(B, A, 1, 1) ELSE OpAdd(A, B, 1, 1))
         ELSE (IF IsScalarE(A) THEN OpAdd(B, A, -1, 1) ELSE OpAdd(A, B, 1, -1))

\* iterating a multiplicative node yields its chain in stored order, so
\* reversed(x) yields the chain from its last element to its first
ReversedFactors(t) == Reverse(t.chain)

RECURSIVE Collapse(_)
\* _collapse
Collapse(t) ==
    IF IsSumNode(t) THEN CollapseSum(t.op, Collapse(t.A), Collapse(t.B))
    ELSE CASE t.k = "op" -> EOf(t.name)
           [] t.k = "compose" ->
                LET rv == ReversedFactors(t)
                    factors == [k \in 1..Len(rv) |-> Collapse(rv[k])]
                IN IF \E k \in 1..Len(rv) : factors[k].kind = "raise"
                   THEN factors[CHOOSE k \in 1..Len(rv) :
                                  /\ factors[k].kind = "raise"
                                  /\ \A l \in 1..(k - 1) : factors[l].kind # "raise"]
                   ELSE CollapseFold(factors)
           [] t.k = "add" -> CollapseSum("add", EOf("A"), EOf("B"))
           [] t.k = "scalar" -> EScal(t.v)
           [] OTHER -> ERaise("NotImplementedError")

\* the names block/block_compose.py binds at module level
ComposeModuleNames == {"division", "block_base", "block_compose", "block_sub", "block_add"}

\* from block.block_compose import block_mul, block_add, block_sub, block_transpose
CollapseImports == {"block_mul", "block_add", "block_sub", "block_transpose"}

\* _collapse from its first statement on: the import raises ImportError when
\* a name is not bound in block.block_compose
CollapseCall(t) ==
    IF CollapseImports \subseteq ComposeModuleNames THEN Collapse(t)
    ELSE ERaise("ImportError")

\* the operands of the expression trees handed to collapse
ELeaves == {COp("A"), COp("B"), COp("D"), CScalar(2)}

\* block_compose(A, B), block_compose(A, block_compose(B, C)),
\* block_add(A, B) and block_sub(A, B) of such operands
ETrees ==
    {CNode(ComposeInit(A, B)) : A \in ELeaves, B \in ELeaves}
    \cup {CNode(ComposeInit(A, CNode(ComposeInit(B, C)))) :
             A \in {COp("A"), COp("D")}, B \in ELeaves, C \in {COp("A"), COp("B")}}
    \cup {SumNode(op, A, B) : op \in {"add", "sub"},
             A \in ELeaves \ {CScalar(2)}, B \in ELeaves \ {CScalar(2)}}

\* the operators the methods are called on
EOps == {EMat(OpMat("A"), FALSE), EMat(OpMat("A"), TRUE),
         EMat(OpMat("R"), FALSE), EDiag(<<2, 3>>)}

\* the second operand of matmat
EOthers == {EMat(OpMat("A"), FALSE), EMat(OpMat("B"), TRUE), EDiag(<<2, 3>>),
            EScal(2), EScal(1), EScal(-1)}

\* the second operand of add, and the scale factors _collapse passes
EAddends == {EMat(OpMat("B"), FALSE), EMat(OpMat("B"), TRUE), EDiag(<<1, 4>>)}
EScales == {<<1, 1>>, <<1, -1>>}

\* what matvec and transpmult are called with
EInputs == CInputs \cup {VecObj(<<5>>)}

IsSquare(op) == IF op.kind = "diag" THEN TRUE ELSE NumRows(op.M) = NumCols(op.M)

EpCallable == epc \in {"idle", "returned", "notimpl", "raised"} /\ ecalls < MaxCalls

EpOutcome(r) ==
    CASE r.kind = "raise" -> "raised"
      [] r.kind = "ni"    -> "notimpl"
      [] OTHER            -> "returned"

\* matrix_op.matvec / diag_op.matvec (diag_op.transpmult is the same method)
EpMatvec(b) ==
    /\ EpCallable
    /\ LET r == IF eself.kind = "mat" THEN MatrixMatvec(eself, b)
                ELSE DiagMatvec(eself, b) IN
          /\ eout' = r
          /\ epc' = EpOutcome(r)
    /\ ecall' = "matvec"
    /\ earg' = b
    /\ escale' = <<1, 1>>
    /\ ecalls' = ecalls + 1
    /\ UNCHANGED <<eself, econ, matvars, compvars, addvars, copyvars, precvars>>

\* matrix_op.transpmult: self.transposed = not self.transposed
EtFlip(b) ==
    /\ EpCallable
    /\ eself.kind = "mat"
    /\ eself' = [eself EXCEPT !.t = ~eself.t]
    /\ ecall' = "transpmult"
    /\ earg' = b
    /\ escale' = <<1, 1>>
    /\ eout' = OtherObj
    /\ epc' = "flipped"
    /\ ecalls' = ecalls + 1
    /\ UNCHANGED <<econ, matvars, compvars, addvars, copyvars, precvars>>

\* result = self.matvec(b), which returns
EtMatvec ==
    /\ epc = "flipped"
    /\ LET r == MatrixMatvec(eself, earg) IN
          /\ r.kind # "raise"
          /\ eout' = r
    /\ epc' = "back"
    /\ UNCHANGED <<eself, econ, ecall, earg, escale, ecalls, matvars, compvars, addvars, copyvars, precvars>>

\* result = self.matvec(b), which raises: the exception leaves transpmult
EtMatvecRaise ==
    /\ epc = "flipped"
    /\ LET r == MatrixMatvec(eself, earg) IN
          /\ r.kind = "raise"
          /\ eout' = r
    /\ epc' = "raised"
    /\ UNCHANGED <<eself, econ, ecall, earg, escale, ecalls, matvars, compvars, addvars, copyvars, precvars>>

\* self.transposed = not self.transposed; return result
EtRestore ==
    /\ epc = "back"
    /\ eself' = [eself EXCEPT !.t = ~eself.t]
    /\ epc' = EpOutcome(eout)
    /\ UNCHANGED <<econ, ecall, earg, escale, eout, ecalls, matvars, compvars, addvars, copyvars, precvars>>

\* matrix_op.matmat / diag_op.matmat
EpMatmat(other) ==
    /\ EpCallable
    /\ IF IsScalarE(other) THEN TRUE ELSE IsSquare(eself)
    /\ LET r == Matmat(eself, other) IN
          /\ eout' = r
          /\ epc' = EpOutcome(r)
    /\ ecall' = "matmat"
    /\ earg' = other
    /\ escale' = <<1, 1>>
    /\ ecalls' = ecalls + 1
    /\ UNCHANGED <<eself, econ, matvars, compvars, addvars, copyvars, precvars>>

\* matrix_op.add / diag_op.add
EpAdd(other, sc) ==
    /\ EpCallable
    /\ IsSquare(eself)
    /\ LET r == OpAdd(eself, other, sc[1], sc[2]) IN
          /\ eout' = r
          /\ epc' = EpOutcome(r)
    /\ ecall' = "add"
    /\ earg' = other
    /\ escale' = sc
    /\ ecalls' = ecalls + 1
    /\ UNCHANGED <<eself, econ, matvars, compvars, addvars, copyvars, precvars>>

\* collapse(x)
EpCollapse(tree) ==
    /\ EpCallable
    /\ LET r == CollapseCall(tree) IN
          /\ eout' = r
          /\ epc' = EpOutcome(r)
    /\ ecall' = "collapse"
    /\ earg' = tree
    /\ escale' = <<1, 1>>
    /\ ecalls' = ecalls + 1
    /\ UNCHANGED <<eself, econ, matvars, compvars, addvars, copyvars, precvars>>

InitEpetra ==
    /\ M = <<<<NoneSlot>>>>
    /\ MatIdle
    /\ nodes = <<>> /\ built = <<>>
    /\ CompIdle
    /\ SumIdle
    /\ CopyIdle
    /\ PrecIdle
    /\ eself \in EOps
    /\ econ = eself
    /\ EpCallIdle

NextEpetra ==
    \/ \E b \in EInputs : EpMatvec(b)
    \/ \E b \in EInputs : EtFlip(b)
    \/ EtMatvec
    \/ EtMatvecRaise
    \/ EtRestore
    \/ \E other \in EOthers : EpMatmat(other)
    \/ \E other \in EAddends, sc \in EScales : EpAdd(other, sc)
    \/ \E tree \in ETrees : EpCollapse(tree)

SpecEpetra == InitEpetra /\ [][NextEpetra]_vars

----------------------------------------------------------------------------
(* block_mat.copy, one slot per step                                       *)

\* what may sit in a slot, by how it can be copied:
\*   "none"/"scalar": no attribute copy, copy.deepcopy gives the value
\*   "op":     has a method copy()
\*   "plain":  no method copy(), copy.deepcopy succeeds
\*   "opaque": no method copy(), copy.deepcopy raises TypeError
CopyKinds == {"none", "scalar", "op", "plain", "opaque"}

CopyShapes == {<<1, 2>>, <<2, 2>>}

\* the object in slot (i, j) of the original: its identity is its position
SrcObj(kind, i, j, n) == [kind |-> kind, id |-> (i - 1) * n + j, of |-> 0, how |-> ""]

CopyMatrices ==
    UNION {{[i \in 1..s[1] |-> [j \in 1..s[2] |-> SrcObj(f[i][j], i, j, s[2])]]
              : f \in [1..s[1] -> [1..s[2] -> CopyKinds]]}
           : s \in CopyShapes}

\* an empty slot of a freshly built block_mat(m, n)
EmptySlot == [kind |-> "empty", id |-> 0, of |-> 0, how |-> ""]

HasCopy(obj) == obj.kind = "op"

DeepCopyRaises(obj) == obj.kind = "opaque"

\* a new object made from obj the given way; values (None, numbers) are
\* their own copies
CopyOf(obj, how, fresh) ==
    IF obj.kind \in {"none", "scalar"}
    THEN [kind |-> obj.kind, id |-> obj.id, of |-> obj.id, how |-> how]
    ELSE [kind |-> obj.kind, id |-> fresh, of |-> obj.id, how |-> how]

\* the names bound at module level in block/block_mat.py
BlockMatNames == {"division", "block_container", "block_vec", "block_mat"}

\* the names local to copy(): import copy, m, n, y, i, j, obj
CopyLocals == {"copy", "m", "n", "y", "i", "j", "obj"}

\* the names of the builtins module that matter here
Builtins == {"range", "hasattr", "TypeError"}

NameBound(nm) == nm \in CopyLocals \cup BlockMatNames \cup Builtins

NameErr == [kind |-> "name", i |-> 0, j |-> 0, a |-> 0, b |-> 0]

\* y = block_mat(m, n)
CallCopy ==
    /\ cppc = "idle"
    /\ cpY' = [i \in 1..Len(cpM) |-> [j \in 1..Len(cpM[1]) |-> EmptySlot]]
    /\ cpi' = 1 /\ cpj' = 1
    /\ cppc' = "loop"
    /\ UNCHANGED <<cpM, cperr, matvars, compvars, addvars, epvars, precvars>>

InCopyLoop == cppc = "loop" /\ cpi <= Len(cpM)

CopyFresh == Len(cpM) * Len(cpM[1]) + (cpi - 1) * Len(cpM[1]) + cpj

\* y[i,j] = obj.copy()
CpSlotCopy ==
    /\ InCopyLoop
    /\ HasCopy(cpM[cpi][cpj])
    /\ cpY' = [cpY EXCEPT ![cpi][cpj] = CopyOf(cpM[cpi][cpj], "copy", CopyFresh)]
    /\ cpi' = NextI(cpi, cpj, Len(cpM[1]))
    /\ cpj' = NextJ(cpi, cpj, Len(cpM[1]))
    /\ UNCHANGED <<cpM, cppc, cperr, matvars, compvars, addvars, epvars, precvars>>

\* y[i,j] = copy.deepcopy(obj)
CpDeepCopy ==
    /\ InCopyLoop
    /\ ~HasCopy(cpM[cpi][cpj])
    /\ ~DeepCopyRaises(cpM[cpi][cpj])
    /\ cpY' = [cpY EXCEPT ![cpi][cpj] = CopyOf(cpM[cpi][cpj], "deepcopy", CopyFresh)]
    /\ cpi' = NextI(cpi, cpj, Len(cpM[1]))
    /\ cpj' = NextJ(cpi, cpj, Len(cpM[1]))
    /\ UNCHANGED <<cpM, cppc, cperr, matvars, compvars, addvars, epvars, precvars>>

\* except TypeError: warning(...); y[i,j] = copy.copy(obj)
\* looking up the name warning raises NameError when nothing binds it
CpFallback ==
    /\ InCopyLoop
    /\ ~HasCopy(cpM[cpi][cpj])
    /\ DeepCopyRaises(cpM[cpi][cpj])
    /\ IF NameBound("warning")
       THEN /\ cpY' = [cpY EXCEPT ![cpi][cpj] =
                          CopyOf(cpM[cpi][cpj], "shallow", CopyFresh)]
            /\ cpi' = NextI(cpi, cpj, Len(cpM[1]))
            /\ cpj' = NextJ(cpi, cpj, Len(cpM[1]))
            /\ UNCHANGED <<cppc, cperr>>
       ELSE /\ cppc' = "raised"
            /\ cperr' = NameErr
            /\ UNCHANGED <<cpY, cpi, cpj>>
    /\ UNCHANGED <<cpM, matvars, compvars, addvars, epvars, precvars>>

\* return y
CpReturn ==
    /\ cppc = "loop" /\ cpi > Len(cpM)
    /\ cppc' = "returned"
    /\ UNCHANGED <<cpM, cpY, cpi, cpj, cperr, matvars, compvars, addvars, epvars, precvars>>

\* y[i,j] = 0 on the matrix copy() returned
CpAssign(i, j) ==
    /\ cppc = "returned"
    /\ cpY' = [cpY EXCEPT ![i][j] = [kind |-> "scalar", id |-> 0, of |-> 0, how |-> "set"]]
    /\ cppc' = "assigned"
    /\ UNCHANGED <<cpM, cpi, cpj, cperr, matvars, compvars, addvars, epvars, precvars>>

InitCopy ==
    /\ M = <<<<NoneSlot>>>>
    /\ MatIdle
    /\ nodes = <<>> /\ built = <<>>
    /\ CompIdle
    /\ SumIdle
    /\ EpIdle
    /\ PrecIdle
    /\ cpM \in CopyMatrices
    /\ CopyCallIdle

NextCopy ==
    \/ CallCopy
    \/ CpSlotCopy
    \/ CpDeepCopy
    \/ CpFallback
    \/ CpReturn
    \/ \E i \in 1..Len(cpM), j \in 1..Len(cpM[1]) : CpAssign(i, j)

SpecCopy == InitCopy /\ [][NextCopy]_vars

----------------------------------------------------------------------------
(* hazmath Precond.__init__, line by line                                  *)

\* a null handle (None) and the handles the library or the caller may give
NullHandle == "null"
Handles == {"h1", "h2"}

\* the arguments prectype, parameters and precond
PrecTypeArgs == {"none", "AMG", "FAMG", "RA"}
PrecParamArgs == {"none", "dict"}
PrecHandleArgs == {NullHandle} \cup Handles

\* truth value of a handle: None is false, a proxy object is true
Truthy(h) == h # NullHandle

\* self.A = A; self.parameters = parameters if parameters else {}
CallPrecond(ptype, pparams, phandle) ==
    /\ ppc = "idle"
    /\ pargs' = [prectype |-> ptype, parameters |-> pparams, precond |-> phandle]
    /\ pself' = [pself EXCEPT !.A = "A",
                              !.parameters = IF pparams # "none" THEN pparams ELSE "empty"]
    /\ ppc' = "branch"
    /\ UNCHANGED <<pwarned, perr, matvars, compvars, addvars, epvars, copyvars>>

\* if precond: self.precond = precond
PcSupplied ==
    /\ ppc = "branch"
    /\ Truthy(pargs.precond)
    /\ pself' = [pself EXCEPT !.precond = pargs.precond]
    /\ ppc' = "type"
    /\ UNCHANGED <<pargs, pwarned, perr, matvars, compvars, addvars, epvars, copyvars>>

\* else: warnings.warn("!! Preconditioner not specified !! ...")
PcWarn ==
    /\ ppc = "branch"
    /\ ~Truthy(pargs.precond)
    /\ pwarned' = TRUE
    /\ ppc' = "setup"
    /\ UNCHANGED <<pargs, pself, perr, matvars, compvars, addvars, epvars, copyvars>>

\* self.precond = haznics.create_precond(A_ptr, amgparam)
PcSetup(h) ==
    /\ ppc = "setup"
    /\ pself' = [pself EXCEPT !.precond = h]
    /\ ppc' = "check"
    /\ UNCHANGED <<pargs, pwarned, perr, matvars, compvars, addvars, epvars, copyvars>>

\* what the test 'if not precond' looks at: the argument precond
PcTested == pargs.precond

\* if not precond: raise RuntimeError("AMG levels failed to set up ...")
PcCheck ==
    /\ ppc = "check"
    /\ IF ~Truthy(PcTested)
       THEN /\ ppc' = "raised"
            /\ perr' = "AMG levels failed to set up (null pointer returned) "
       ELSE /\ ppc' = "type"
            /\ UNCHANGED perr
    /\ UNCHANGED <<pargs, pself, pwarned, matvars, compvars, addvars, epvars, copyvars>>

\* self.prectype = prectype if prectype else "AMG"
PcType ==
    /\ ppc = "type"
    /\ pself' = [pself EXCEPT !.prectype =
                    IF pargs.prectype # "none" THEN pargs.prectype ELSE "AMG"]
    /\ ppc' = "returned"
    /\ UNCHANGED <<pargs, pwarned, perr, matvars, compvars, addvars, epvars, copyvars>>

InitPrecond ==
    /\ M = <<<<NoneSlot>>>>
    /\ MatIdle
    /\ nodes = <<>> /\ built = <<>>
    /\ CompIdle
    /\ SumIdle
    /\ EpIdle
    /\ CopyIdle
    /\ PrecIdle

NextPrecond ==
    \/ \E ptype \in PrecTypeArgs, pparams \in PrecParamArgs, phandle \in PrecHandleArgs :
          CallPrecond(ptype, pparams, phandle)
    \/ PcSupplied
    \/ PcWarn
    \/ \E h \in PrecHandleArgs : PcSetup(h)
    \/ PcCheck
    \/ PcType

SpecPrecond == InitPrecond /\ [][NextPrecond]_vars

----------------------------------------------------------------------------
(* Reference results, computed from the blocks as they were passed in      *)

\* the contribution of slot s to a block with value v (adjoint: of its adjoint)
ContribVal(s, v, adjoint) ==
    IF s.k = "scalar" THEN VecScale(s.v, v)
    ELSE MatVecMul(IF adjoint THEN Transpose(OpMat(s.name)) ELSE OpMat(s.name), v)

\* sum of the contributions of slots[1..k] to xs[1..k]; <<>> when there is none
RECURSIVE SumContrib(_, _, _, _)
SumContrib(slots, xs, k, adjoint) ==
    IF k = 0 THEN <<>>
    ELSE LET rest == SumContrib(slots, xs, k - 1, adjoint) IN
         IF SlotIsSkip(slots[k]) THEN rest
         ELSE IF rest = <<>> THEN ContribVal(slots[k], xs[k], adjoint)
         ELSE VecAdd(rest, ContribVal(slots[k], xs[k], adjoint))

Column(mat, c) == [r \in 1..Len(mat) |-> mat[r][c]]

\* whether block i of y holds exactly the value want (<<>>: is empty)
BlockIs(i, want) ==
    IF want = <<>> THEN y[i] = 0
    ELSE y[i] # 0 /\ heap[y[i]].val = want

AllSlots(mat) == {mat[r][c] : r \in 1..Len(mat), c \in 1..Len(mat[1])}

----------------------------------------------------------------------------
(* Claims about block_mat                                                  *)

\* C1: a matvec that returns gives, in every row i, the sum over the columns
\* j of the contributions of the slots (None/0: nothing, 1: x[j], operator:
\* the operator applied to x[j]) computed from the blocks of x as passed in,
\* and leaves y[i] empty when no slot contributes.
C1_MatvecSumsOriginalBlocks ==
    ( /\ mode = "matvec" /\ pc = "returned"
      /\ AllSlots(M) \subseteq {NoneSlot, ScalarSlot(0), ScalarSlot(1),
                                GmSlot("A"), OpSlot("B"), OpSlot("R")} )
    => /\ Len(y) = Rows
       /\ \A i \in 1..Rows : BlockIs(i, SumContrib(M[i], xin, Cols, FALSE))

\* each row holds at least one non-empty block, as block_mat requires
RowsNonEmpty(mat) == \A r \in 1..Len(mat) : \E c \in 1..Len(mat[1]) : ~SlotIsSkip(mat[r][c])

\* C8: for every shape (m,n) and every x of length m, transpmult returns a
\* block vector of length n whose block i is the sum over the rows j of the
\* adjoint contribution of slot M[j,i] to x[j] (nothing for None/0, x[j] for
\* 1, c*x[j] for a scalar c, the adjoint of an operator applied to x[j]).
C8_TranspmultMirrorsMatvec ==
    ( /\ mode = "transpmult" /\ pc \in {"returned", "raised"}
      /\ RowsNonEmpty(M)
      /\ AllSlots(M) \subseteq {NoneSlot, ScalarSlot(0), ScalarSlot(1), ScalarSlot(2),
                                GmSlot("A"), OpSlot("B")} )
    => /\ pc = "returned"
       /\ Len(y) = Cols
       /\ \A i \in 1..Cols : BlockIs(i, SumContrib(Column(M, i), xin, Rows, TRUE))

\* the contribution about to be computed in matvec is a vector whose length
\* differs from that of the accumulator already stored in y[i]
MismatchAhead ==
    /\ InMatvecLoop
    /\ ~SlotIsSkip(M[bi][bj])
    /\ y[bi] # 0
    /\ LET s == M[bi][bj]
           zval == IF SlotIsOne(s) THEN heap[x[bj]].val
                   ELSE ContribVal(s, heap[x[bj]].val, FALSE)
       IN /\ s.name \notin {"NA", "LZ"}
          /\ Len(zval) # Len(heap[y[bi]].val)

\* C9: whenever the contribution for position (i,j) has a length different
\* from the accumulator in y[i], matvec raises an error naming the position
\* and both lengths, without accumulating, and returns no block vector.
C9_DimensionMismatchRaises ==
    [][ /\ MismatchAhead =>
            /\ pc' = "raised"
            /\ err' = [kind |-> "dim", i |-> bi - 1, j |-> bj - 1,
                       a |-> IF SlotIsOne(M[bi][bj]) THEN Len(heap[x[bj]].val)
                             ELSE Len(ContribVal(M[bi][bj], heap[x[bj]].val, FALSE)),
                       b |-> Len(heap[y[bi]].val)]
            /\ heap' = heap /\ y' = y
        /\ (mode = "matvec" /\ pc = "raised") => pc' = "raised"
      ]_vars

C9_Witness ==
    /\ mode = "matvec" /\ pc = "raised" /\ err.kind = "dim"
    /\ y[bi] # 0

\* the generic multiplication slot * x[j] about to be done yields NotImplemented
NotImplAhead ==
    /\ InMatvecLoop
    /\ M[bi][bj].k = "op"
    /\ OpMul(M[bi][bj].name, heap[x[bj]]).tag = "ni"

\* C10: when slot * x[j] yields NotImplemented, matvec returns NotImplemented
\* (it neither raises nor returns the partly filled result) and evaluates no
\* slot after that one.
C10_NotImplementedPropagates ==
    [][ /\ NotImplAhead =>
            /\ pc' = "notimpl" /\ err' = NoErr
            /\ calls' = Append(calls, <<bi, bj>>)
            /\ heap' = heap /\ y' = y
        /\ (mode = "matvec" /\ pc = "notimpl") => (pc' = "notimpl" /\ calls' = calls)
      ]_vars

C10_Witness ==
    /\ mode = "matvec" /\ pc = "notimpl"
    /\ Len(calls) >= 2
    /\ \E i \in 1..Rows, j \in 1..Cols :
          /\ <<i, j>> \notin {calls[k] : k \in 1..Len(calls)}
          /\ ~SlotIsSkip(M[i][j])

----------------------------------------------------------------------------
(* Claims about block_compose                                              *)

\* a chain element that is a concrete matrix operator or a number
IsPlain(op) == op.k = "scalar" \/ (op.k = "op" /\ op.name \in {"A", "B"})

\* the product of a plain element with the value v, and of its adjoint
PlainMul(op, v, adjoint) ==
    ContribVal([k |-> op.k, v |-> op.v, name |-> op.name], v, adjoint)

\* the operand before entry k of the log
LogInput(k) == IF k = 1 THEN cin ELSE clog[k - 1].out

\* C2: applying a Compose node invokes the factors of its chain in stored
\* order, each once, feeding each result to the next factor, and returns the
\* last result; Compose(A,B) applies B first, then A to B's result.
C2_ApplyInChainOrder ==
    cmode = "mul" =>
        /\ Len(clog) <= Len(cchain)
        /\ \A k \in 1..Len(clog) :
              /\ clog[k].op = cchain[k]
              /\ clog[k].inp = LogInput(k)
        /\ cpc = "returned" =>
              /\ Len(clog) = Len(cchain)
              /\ cx = clog[Len(clog)].out
        /\ ( /\ cpc = "returned"
             /\ cargs[1].k # "compose" /\ cargs[2].k # "compose" ) =>
              /\ Len(clog) = 2
              /\ clog[1].op = cargs[2]
              /\ clog[2].op = cargs[1]
              /\ ( /\ IsPlain(cargs[1]) /\ IsPlain(cargs[2])
                   /\ cin.kind = "vec" ) =>
                    cx = VecObj(PlainMul(cargs[1], PlainMul(cargs[2], cin.val, FALSE), FALSE))

C2_Witness ==
    /\ cmode = "mul" /\ cpc = "returned"
    /\ cargs = <<COp("A"), COp("B")>>
    /\ cin.kind = "vec"

\* the chain and the arguments of block_compose(A, block_compose(B, C))
RightAssoc(A, B, C) == ComposeInit(A, CNode(ComposeInit(B, C)))

\* the chain and the arguments of block_compose(block_compose(A, B), C)
LeftAssoc(A, B, C) == ComposeInit(CNode(ComposeInit(A, B)), C)

\* the chains the other bracketing of the construction (X, Y) gives, X or Y
\* being a node that was itself built from two operands
Rebracketed(X, Y) ==
    {RightAssoc(built[j][1], built[j][2], Y) : j \in {i \in 1..Len(nodes) : nodes[i] = X}}
    \cup
    {LeftAssoc(X, built[j][1], built[j][2]) : j \in {i \in 1..Len(nodes) : nodes[i] = Y}}

\* C3: Compose(Compose(A,B),C) and Compose(A,Compose(B,C)) hold the same
\* chain in the same order, and give the same result on every operand.
C3_ComposeAssociative ==
    /\ \A k \in 1..Len(nodes) :
          \A ch \in Rebracketed(built[k][1], built[k][2]) : nodes[k].chain = ch
    /\ (cmode = "mul" /\ cpc \in {"returned", "notimpl"}) =>
          \A ch \in Rebracketed(cargs[1], cargs[2]) : cx = ApplyChain(ch, cin, 1)

C3_Witness ==
    /\ cmode = "mul" /\ cpc = "returned" /\ cin.kind = "vec"
    /\ Len(nodes) = 2
    /\ built[1] = <<COp("A"), COp("B")>>
    /\ built[2] = <<nodes[1], CAdd>> \/ built[2] = <<CScalar(-1), nodes[1]>>
    /\ cargs = built[2]

\* C4: no chain ever holds a Compose node, and building a Compose node
\* leaves the chain of every existing Compose node as it was.
C4_ChainsFlatAndImmutable ==
    /\ [](\A k \in 1..Len(nodes) :
             \A e \in 1..Len(nodes[k].chain) : nodes[k].chain[e].k # "compose")
    /\ [][ /\ Len(nodes') >= Len(nodes)
           /\ \A k \in 1..Len(nodes) : nodes'[k] = nodes[k] ]_vars

C4_Witness ==
    /\ Len(nodes) = 2
    /\ built[1] = <<CScalar(-1), CAdd>>
    /\ built[2] = <<nodes[1], nodes[1]>>

\* C5: when a factor's multiply yields NotImplemented the forward apply
\* returns NotImplemented at once: no later factor is invoked and no partial
\* result is kept.
C5_ForwardFailFast ==
    cmode = "mul" =>
        /\ \A k \in 1..Len(clog) :
              /\ clog[k].inp.kind # "ni"
              /\ clog[k].out.kind = "ni" =>
                    /\ k = Len(clog)
                    /\ cpc = "notimpl"
                    /\ cx = NIObj
        /\ cpc = "notimpl" =>
              /\ clog # <<>>
              /\ clog[Len(clog)].out = NIObj
              /\ clog[Len(clog)].op = cchain[Len(clog)]

C5_Witness ==
    /\ cmode = "mul" /\ cpc = "notimpl"
    /\ cin.kind = "vec"
    /\ Len(clog) = 2 /\ Len(cchain) = 3

NotOne(op) == ~(op.k = "scalar" /\ op.v = 1)

\* C6: the adjoint apply visits the factors in the reverse of the stored
\* order, uses transpmult for a non-scalar factor and a plain product for a
\* scalar, skips a scalar 1 without touching the running vector, so that the
\* adjoint of Compose(A,B) on x is adjoint(B) of (adjoint(A) of x).
C6_AdjointReverseOrder ==
    cmode = "transp" =>
        LET visited == SelectSeq(SubSeq(Reverse(cchain), 1, ck), NotOne) IN
        /\ Len(clog) = Len(visited)
        /\ \A k \in 1..Len(clog) :
              /\ clog[k].op = visited[k]
              /\ clog[k].inp = LogInput(k)
              /\ (IsPlain(clog[k].op) /\ clog[k].inp.kind = "vec") =>
                    clog[k].out = VecObj(PlainMul(clog[k].op, clog[k].inp.val, TRUE))
        /\ cx = IF clog = <<>> THEN cin ELSE clog[Len(clog)].out
        /\ ( /\ cpc = "returned" /\ cin.kind = "vec"
             /\ cargs[1].k = "op" /\ cargs[2].k = "op"
             /\ IsPlain(cargs[1]) /\ IsPlain(cargs[2]) ) =>
              cx = VecObj(PlainMul(cargs[2], PlainMul(cargs[1], cin.val, TRUE), TRUE))

C6_Witness ==
    /\ cmode = "transp" /\ cpc = "returned" /\ cin.kind = "vec"
    /\ cchain = <<COp("B"), CScalar(1), COp("A")>>
    /\ Len(clog) = 2

\* C7: when a factor's adjoint multiply yields NotImplemented, transpmult
\* returns NotImplemented at once: no further factor is invoked, and no
\* factor is ever called with NotImplemented as its input.
C7_AdjointFailFast ==
    cmode = "transp" =>
        \A k \in 1..Len(clog) :
            /\ clog[k].inp.kind # "ni"
            /\ clog[k].out.kind = "ni" => k = Len(clog)

----------------------------------------------------------------------------
(* block_add / block_sub                                                   *)

SumTerminal == spc \in {"returned", "notimpl", "raised"}

\* self.A*x and self.B*x of the node being applied, from x as passed in
SumAx == FactorMul(snodes[sk].A, sxin)
SumBx == FactorMul(snodes[sk].B, sxin)

\* A x + B x, respectively A x - B x, element by element
SumExpected ==
    [i \in 1..Len(SumAx.val) |->
        IF snodes[sk].op = "add" THEN SumAx.val[i] + SumBx.val[i]
                                 ELSE SumAx.val[i] - SumBx.val[i]]

\* C11: applied to an operand that is no vector, block_add / block_sub
\* return NotImplemented and evaluate neither self.A*x nor self.B*x; applied
\* to a vector on which both operands act, they evaluate self.A*x into y, then
\* self.B*x, update that same y in place and return it, holding A x + B x
\* for block_add and A x - B x for block_sub.
C11_SumApply ==
    /\ (spc \notin {"idle", "check"} /\ ~IsVector(sxin)) =>
          /\ spc = "notimpl"
          /\ sevals = <<>>
          /\ sy = 0
    /\ (SumTerminal /\ IsVector(sxin) /\ IsVector(SumAx) /\ IsVector(SumBx)) =>
          /\ spc = "returned"
          /\ sevals = <<"A", "B">>
          /\ sy = 2
          /\ sheap[sy] = VecObj(SumExpected)
          /\ sheap[1] = sxin

C11_Witness ==
    /\ spc = "returned"
    /\ snodes[sk].op = "sub"
    /\ snodes[sk].A = COp("A") /\ snodes[sk].B = CScalar(2)
    /\ sxin = VecObj(<<3, 1>>)
    /\ sheap[sy] = VecObj(<<-1, -1>>)

\* C12: when block_add / block_sub is applied to a vector and self.A*x or
\* self.B*x is NotImplemented, the apply returns NotImplemented; it does not
\* raise.
C12_SumNotImplementedPropagates ==
    (SumTerminal /\ IsVector(sxin) /\ (SumAx.kind = "ni" \/ SumBx.kind = "ni")) =>
        spc = "notimpl"

\* the whole of block_add.__mul__ / block_sub.__mul__ for node n and operand b
SumApply(n, b) ==
    IF ~IsVector(b) THEN [pc |-> "notimpl", val |-> <<>>]
    ELSE LET ya == FactorMul(n.A, b)
             zb == FactorMul(n.B, b)
         IN IF IsVector(ya) /\ IsVector(zb)
            THEN [pc |-> "returned", val |-> SumUpdate(n.op, ya.val, zb.val)]
            ELSE [pc |-> "raised", val |-> <<>>]

\* the outcome of the running apply
SumOutcome ==
    [pc |-> spc, val |-> IF spc = "returned" THEN sheap[sy].val ELSE <<>>]

\* C13: negating block_sub(A, B) makes a new block_sub with the children
\* (B, A) and leaves every existing node as it was; applying the negation
\* gives what block_sub(B, A) gives; negating twice gives the children (A, B).
C13_SubNegation ==
    /\ [](\A k \in 1..Len(snodes) :
             sfrom[k] # 0 =>
                LET src == snodes[sfrom[k]] IN
                /\ snodes[k].op = "sub"
                /\ snodes[k].A = src.B /\ snodes[k].B = src.A
                /\ sfrom[sfrom[k]] # 0 =>
                      /\ snodes[k].A = snodes[sfrom[sfrom[k]]].A
                      /\ snodes[k].B = snodes[sfrom[sfrom[k]]].B
                /\ (sk = k /\ SumTerminal) =>
                      SumOutcome = SumApply(SumNode("sub", src.B, src.A), sxin))
    /\ [][/\ Len(snodes') >= Len(snodes)
          /\ \A k \in 1..Len(snodes) : snodes'[k] = snodes[k]]_vars

C13_Witness ==
    /\ Len(snodes) = 3
    /\ sfrom = <<0, 1, 2>>
    /\ snodes[1].A = COp("A") /\ snodes[1].B = COp("B")
    /\ sk = 2
    /\ spc = "returned"
    /\ sxin = VecObj(<<1, 2>>)
    /\ sheap[sy] = VecObj(<<-4, 1>>)

----------------------------------------------------------------------------
(* Epetra.py: collapse, add, matmat, transpmult                            *)

EpTerminal == epc \in {"returned", "notimpl", "raised"}

\* op * b for a concrete operator op: its matvec
EApply(op, b) ==
    IF op.kind = "mat" THEN MatrixMatvec(op, b) ELSE DiagMatvec(op, b)

AllConcrete(ch) == \A k \in 1..Len(ch) : ch[k].k = "op"

\* C14: collapse of a block_compose of concrete operators (two factors or
\* more) returns one concrete operator, and applying it to any vector gives
\* what applying the block_compose to that vector gives.
C14_CollapseEqualsCompose ==
    (/\ ecall = "collapse"
     /\ ~IsSumNode(earg)
     /\ AllConcrete(earg.chain)) =>
        /\ epc = "returned"
        /\ eout.kind \in {"mat", "diag"}
        /\ \A xv \in XVals :
              EApply(eout, VecObj(xv)) = ApplyChain(earg.chain, VecObj(xv), 1)

\* C15: collapse of block_sub(A, B) of matrix and diagonal operators is an
\* operator equal to A - B, collapse of block_add(A, B) one equal to A + B,
\* and add(other, lscale, rscale) is lscale*self + rscale*other for every
\* combination of operand kinds.
C15_CollapseSubtracts ==
    /\ (ecall = "collapse" /\ IsSumNode(earg)) =>
          /\ epc = "returned"
          /\ eout.kind \in {"mat", "diag"}
          /\ Dense(eout) =
                MatAdd(Dense(Collapse(earg.A)),
                       MatScale(IF earg.op = "add" THEN 1 ELSE -1,
                                Dense(Collapse(earg.B))))
    /\ ecall = "add" =>
          /\ epc = "returned"
          /\ eout.kind \in {"mat", "diag"}
          /\ Dense(eout) = MatAdd(MatScale(escale[1], Dense(eself)),
                                  MatScale(escale[2], Dense(earg)))

\* C18: when transpmult is left, by a return or by an exception, the flag
\* transposed has the value the operator was constructed with, and every
\* matvec gives what the operator as constructed gives.
C18_TranspmultRestoresFlag ==
    /\ (EpTerminal /\ eself.kind = "mat") => eself.t = econ.t
    /\ (ecall = "matvec" /\ eself.kind = "mat") => eout = MatrixMatvec(econ, earg)

\* C19: matmat with a numeric scalar c returns, for a diagonal operator with
\* entries v, a diagonal operator with entries c*v, and for a matrix operator
\* a matrix operator with the entries scaled by c and the same flag
\* transposed; the operator itself is left as it was.
C19_MatmatByScalar ==
    /\ []((ecall = "matmat" /\ IsScalarE(earg)) =>
            /\ epc = "returned"
            /\ eout.kind = eself.kind
            /\ eself.kind = "diag" =>
                  eout.v = [i \in 1..Len(eself.v) |-> earg.v[1] * eself.v[i]]
            /\ eself.kind = "mat" =>
                  /\ eout.M = MatScale(earg.v[1], eself.M)
                  /\ eout.t = eself.t)
    /\ [][ecall' = "matmat" => eself' = eself]_vars

----------------------------------------------------------------------------
(* block_mat.matvec: the operand                                           *)

\* C16: block_mat.matvec leaves every block of its operand x as it was
\* passed in, at every point of the call and on every outcome (a vector,
\* NotImplemented, an exception), whatever the slots of the matrix are.
C16_MatvecLeavesOperandUnchanged ==
    mode = "matvec" =>
        \A k \in 1..Len(x) : heap[x[k]] = VecObj(xin[k])

----------------------------------------------------------------------------
(* block_mat.copy                                                          *)

\* how slot obj has to be copied
CopyHow(obj) ==
    IF HasCopy(obj) THEN "copy"
    ELSE IF DeepCopyRaises(obj) THEN "shallow" ELSE "deepcopy"

\* C17: copy() never raises; the matrix it returns has the shape of the
\* original and slot (i, j) is a copy of the original slot, made by the
\* slot's copy() when it has one, else by copy.deepcopy, and by a shallow
\* copy when deepcopy raises TypeError; the original's slots stay as they
\* are, also when a slot of the copy is assigned afterwards.
C17_CopyCompletes ==
    /\ [](/\ cppc # "raised"
          /\ cppc = "returned" =>
                /\ Len(cpY) = Len(cpM)
                /\ \A i \in 1..Len(cpM) :
                      /\ Len(cpY[i]) = Len(cpM[i])
                      /\ \A j \in 1..Len(cpM[i]) :
                            /\ cpY[i][j].kind = cpM[i][j].kind
                            /\ cpY[i][j].of = cpM[i][j].id
                            /\ cpY[i][j].how = CopyHow(cpM[i][j]))
    /\ [][cpM' = cpM]_vars

----------------------------------------------------------------------------
(* hazmath Precond.__init__                                                *)

\* C20: constructed without a handle, Precond sets up a default
\* preconditioner; the constructor raises the RuntimeError only when the
\* setup returned a null handle, and when the setup returned a handle the
\* constructor returns with self.precond that handle and self.prectype the
\* argument prectype, "AMG" when none was given.
C20_DefaultPrecondSetup ==
    /\ ppc = "raised" => ~Truthy(pself.precond)
    /\ (ppc \in {"raised", "returned"} /\ ~Truthy(pargs.precond)
          /\ Truthy(pself.precond)) =>
          /\ ppc = "returned"
          /\ pwarned
          /\ pself.prectype =
                (IF pargs.prectype # "none" THEN pargs.prectype ELSE "AMG")

====
